---------------------------- MODULE Spec2Model ----------------------------
(***************************************************************************)
(* A model of hey_listen (src/src/lib.rs): the request-driven iteration    *)
(* execute_sync_dispatcher_requests and the three registries built on it,  *)
(* EventDispatcher, PriorityEventDispatcher and ParallelEventDispatcher.   *)
(*                                                                         *)
(* Vectors are TLA+ sequences; the code's 0-based `index` is kept, so the  *)
(* element the code calls vec[index] is vec[index + 1] here.               *)
(***************************************************************************)
EXTENDS Integers, Sequences, FiniteSets, TLC

\* ------------------------------------------------------------------------
\* Bounds of the model
\* ------------------------------------------------------------------------

\* longest input vector enumerated for one run of the iteration
MaxLen == 5

\* ------------------------------------------------------------------------
\* Requests and results
\* ------------------------------------------------------------------------

\* Option<SyncDispatcherRequest>: the three variants and None
StopListening == "StopListening"
StopPropagation == "StopPropagation"
StopListeningAndPropagation == "StopListeningAndPropagation"
None == "None"

SyncDispatcherRequest == {StopListening, StopPropagation, StopListeningAndPropagation}

SyncAnswers == SyncDispatcherRequest \cup {None}

\* ExecuteRequestsResult, and Running while the loop has not returned
Finished == "Finished"
Stopped == "Stopped"
Running == "Running"

\* ------------------------------------------------------------------------
\* Vec helpers
\* ------------------------------------------------------------------------

Range(s) == {s[k] : k \in 1 .. Len(s)}

\* a mutant of swap_remove: drops the last element and leaves slot i alone
swap_remove_PopLast(v, i) ==
    [k \in 1 .. (Len(v) - 1) |-> v[k]]

\* Vec::swap_remove(i), 0-based i < len: the last element replaces slot i
swap_remove(v, i) ==
    [k \in 1 .. (Len(v) - 1) |-> IF k = i + 1 THEN v[Len(v)] ELSE v[k]]

\* ------------------------------------------------------------------------
\* execute_sync_dispatcher_requests
\* ------------------------------------------------------------------------

\* a mutant of LoopStep: the index advances after a removal too
LoopStep_AdvanceOnRemove(v, i, req) ==
    CASE req = None -> [vec |-> v, index |-> i + 1, ret |-> Running]
      [] req = StopListening ->
            [vec |-> swap_remove(v, i), index |-> i + 1, ret |-> Running]
      [] req = StopPropagation -> [vec |-> v, index |-> i, ret |-> Stopped]
      [] req = StopListeningAndPropagation ->
            [vec |-> swap_remove(v, i), index |-> i, ret |-> Stopped]

\* a mutant of LoopStep: StopPropagation is ignored and the loop goes on
LoopStep_IgnoreStop(v, i, req) ==
    CASE req = None -> [vec |-> v, index |-> i + 1, ret |-> Running]
      [] req = StopListening ->
            [vec |-> swap_remove(v, i), index |-> i, ret |-> Running]
      [] req = StopPropagation -> [vec |-> v, index |-> i + 1, ret |-> Running]
      [] req = StopListeningAndPropagation ->
            [vec |-> swap_remove(v, i), index |-> i, ret |-> Stopped]

\* a mutant of LoopStep: StopListeningAndPropagation removes and goes on
LoopStep_RemoveNoStop(v, i, req) ==
    CASE req = None -> [vec |-> v, index |-> i + 1, ret |-> Running]
      [] req = StopListening ->
            [vec |-> swap_remove(v, i), index |-> i, ret |-> Running]
      [] req = StopPropagation -> [vec |-> v, index |-> i, ret |-> Stopped]
      [] req = StopListeningAndPropagation ->
            [vec |-> swap_remove(v, i), index |-> i, ret |-> Running]

\* the match on function(&vec[index]) of one loop iteration with
\* index < vec.len(): the vector, the index and the result after it
LoopStep(v, i, req) ==
    CASE req = None -> [vec |-> v, index |-> i + 1, ret |-> Running]
      [] req = StopListening ->
            [vec |-> swap_remove(v, i), index |-> i, ret |-> Running]
      [] req = StopPropagation -> [vec |-> v, index |-> i, ret |-> Stopped]
      [] req = StopListeningAndPropagation ->
            [vec |-> swap_remove(v, i), index |-> i, ret |-> Stopped]

\* tests::execute_sync_dispatcher_requests::map_usize_to_request
map_usize_to_request(x) ==
    CASE x = 0 -> StopListening
      [] x = 1 -> StopPropagation
      [] x = 2 -> StopListeningAndPropagation
      [] OTHER -> None

\* the usize values the vectors are drawn from: one per answer
Usizes == 0 .. 3

\* the vectors of the four unit tests
TestVecs ==
    { <<0, 0, 0, 1, 1, 1, 1>>, <<>>, <<0, 0, 0, 0, 0, 0, 0>>, <<2, 0>> }

\* bounded input vectors: every vector up to MaxLen, and the tests' vectors
InputVecs == UNION {[1 .. n -> Usizes] : n \in 0 .. MaxLen} \cup TestVecs

\* The generic T of the run is instantiated with tagged values <<tag, usize>>,
\* the tag being the element's original position, so that equal values stay
\* distinguishable; the callback looks at the usize only.
Tagged(vals) == [k \in 1 .. Len(vals) |-> <<k, vals[k]>>]

Vals(v) == [k \in 1 .. Len(v) |-> v[k][2]]

function(elem) == map_usize_to_request(elem[2])

VARIABLES
    \* one run of execute_sync_dispatcher_requests on its own
    input,      \* the vector passed to the run, as it was at the call
    vec,        \* the run's `vec`
    index,      \* the `index` of the run (also of a run inside dispatch_event)
    ret,        \* Running, or the result returned (in the parallel
                \* registry: the result of the last num_threads call)
    calls,      \* the callback invocations made, in order
    \* the registries
    kind,       \* which program this behaviour is: the bare run ("exec") or
                \* one of the three registries
    events,     \* the registry's `events` map
    thread_pool,    \* ParallelEventDispatcher::thread_pool
    alive,      \* the listeners the application still holds a strong owner of
    registered, \* per identity, how many registrations were ever made for it
    \* the activation of dispatch_event
    pc,         \* where dispatch_event stands
    event_identifier,   \* its argument
    found_invalid_weak_ref, \* its local of that name
    priority,   \* the tier the loop of the priority registry stands at
    listener_arc,   \* the upgraded listener held during on_event
    entry,      \* the registry and the live listeners as they were at the call
    \* the parallel dispatch
    traits_task,    \* per listener reference, how far its closure body got
    fns_task,       \* per closure, how far its closure body got
    traits_to_remove,   \* the Mutex<Vec<usize>> of that name
    fns_to_remove       \* the Mutex<Vec<usize>> of that name

execVars == <<input, vec>>

parVars == <<traits_task, fns_task, traits_to_remove, fns_to_remove>>

dispVars ==
    <<kind, events, thread_pool, alive, registered, pc, event_identifier,
      found_invalid_weak_ref, priority, listener_arc, entry, parVars>>

vars == <<execVars, index, ret, calls, dispVars>>

\* event identifiers, listeners (Arc<Mutex<D>>) and boxed closures
Events == {"e1", "e2"}

Listeners == {"l1", "l2"}

Closures == {"f1", "f2"}

\* Option<ThreadPool>::None; Some(pool) is the set of the pool's size
NoPool == {}

NoEvent == "NoEvent"

NoListener == "NoListener"

\* no tier: the priorities of the model are 1, 2, ..
NoPriority == 0

NoCall == [events |-> <<>>, alive |-> {}, thread_pool |-> NoPool]

\* ListenerMap::new(): no identity has a collection. A map is a function on
\* the identities that have one.
EmptyMap == <<>>

\* a mutant of insert: the map is replaced by one with the new key alone
insert_Replace(evs, id, c) == (id :> c)

\* HashMap::insert(id, c)
insert(evs, id, c) == (id :> c) @@ evs

\* a registry that is not dispatching: no activation of dispatch_event
NoActivation ==
    /\ pc = "idle"
    /\ event_identifier = NoEvent
    /\ found_invalid_weak_ref = FALSE
    /\ priority = NoPriority
    /\ listener_arc = NoListener
    /\ entry = NoCall
    /\ traits_task = <<>>
    /\ fns_task = <<>>
    /\ traits_to_remove = <<>>
    /\ fns_to_remove = <<>>

\* the state at the call of execute_sync_dispatcher_requests(&mut vec, f)
InitExec ==
    /\ input \in {Tagged(vals) : vals \in InputVecs}
    /\ vec = input
    /\ index = 0
    /\ ret = Running
    /\ calls = <<>>
    /\ kind = "exec"
    /\ events = EmptyMap
    /\ thread_pool = NoPool
    /\ alive = Listeners
    /\ registered = [id \in Events |-> 0]
    /\ NoActivation

\* a mutant of InBounds: the loop condition is off by one
InBounds_OffByOne(v, i) == i <= Len(v)

\* the loop condition, index < vec.len()
InBounds(v, i) == i < Len(v)

\* the value of `ret` after a panic (vec[index] out of bounds)
Panicked == "Panicked"

\* one iteration with index < vec.len(): call function on vec[index] (which
\* panics when index is out of bounds) and act on its answer
Iterate ==
    /\ kind = "exec"
    /\ ret = Running
    /\ InBounds(vec, index)
    /\ IF index + 1 \in DOMAIN vec
       THEN /\ LET r == LoopStep(vec, index, function(vec[index + 1]))
               IN /\ vec' = r.vec
                  /\ index' = r.index
                  /\ ret' = r.ret
            /\ calls' = Append(calls, vec[index + 1])
       ELSE /\ ret' = Panicked
            /\ UNCHANGED <<vec, index, calls>>
    /\ UNCHANGED <<input, dispVars>>

\* the else branch: index reached vec.len()
ReturnFinished ==
    /\ kind = "exec"
    /\ ret = Running
    /\ ~InBounds(vec, index)
    /\ ret' = Finished
    /\ UNCHANGED <<input, vec, index, calls, dispVars>>

NextExec == Iterate \/ ReturnFinished

SpecExec == InitExec /\ [][NextExec]_vars

\* ------------------------------------------------------------------------
\* The registries: shared parts
\* ------------------------------------------------------------------------

\* most registrations (of listeners and closures) made on an EventDispatcher
MaxSubs == 3

\* most registrations made on a ParallelEventDispatcher
MaxParallelSubs == 2

\* most registrations made on a PriorityEventDispatcher
MaxPrioritySubs == 2

\* most threads of a rayon pool: of a configured one, and of the global one
MaxThreads == 2

\* FnsAndTraits::new_with_traits and ParallelFnsAndTraits::new_with_traits
new_with_traits(trait_objects) == [traits |-> trait_objects, fns |-> <<>>]

\* FnsAndTraits::new_with_fns and ParallelFnsAndTraits::new_with_fns
new_with_fns(fns) == [traits |-> <<>>, fns |-> fns]

\* Weak::upgrade succeeds while some strong owner exists: the application's,
\* or an Arc a dispatch holds during on_event
Holders ==
    {listener_arc} \cup
    {events[event_identifier].traits[k] :
        k \in {j \in DOMAIN traits_task :
                  traits_task[j] \in {"arc", "locked", "push"}}}

upgrade(w) == w \in alive \/ w \in Holders

\* a mutant of retain_upgradable: the sweep stops at the first live reference
retain_upgradable_UntilLive(v) ==
    IF \E k \in 1 .. Len(v) : upgrade(v[k])
    THEN LET first == CHOOSE k \in 1 .. Len(v) :
                        /\ upgrade(v[k])
                        /\ \A j \in 1 .. (k - 1) : ~upgrade(v[j])
         IN SubSeq(v, first, Len(v))
    ELSE <<>>

\* traits.retain(|listener| Weak::clone(listener).upgrade().is_some())
retain_upgradable(v) == SelectSeq(v, upgrade)

\* the collections of a registry value: of the priority registry, every tier
Collections(k, evs) ==
    IF k = "priority"
    THEN UNION {{evs[id][p] : p \in DOMAIN evs[id]} : id \in DOMAIN evs}
    ELSE {evs[id] : id \in DOMAIN evs}

RECURSIVE SumOver(_, _)
SumOver(f, S) ==
    IF S = {} THEN 0
    ELSE LET x == CHOOSE y \in S : TRUE
         IN f[x] + SumOver(f, S \ {x})

\* how many registrations were made on the registry so far
NumRegs == SumOver(registered, Events)

\* the closures the registry owns: a Box is moved in, so each is held once
OwnedClosures == UNION {Range(c.fns) : c \in Collections(kind, events)}

\* the record of one invocation of a subscriber
Call(sub, req, at, prio) == [sub |-> sub, req |-> req, at |-> at, prio |-> prio]

\* the application drops its last strong owner of a listener (any thread,
\* at any time)
Drop(l) ==
    /\ kind \in {"sync", "priority", "parallel"}
    /\ l \in alive
    /\ alive' = alive \ {l}
    /\ UNCHANGED <<execVars, index, ret, calls, kind, events, thread_pool,
                   registered, pc, event_identifier, found_invalid_weak_ref,
                   priority, listener_arc, entry, parVars>>

\* dispatch_event returns to its caller: the activation is gone
Return ==
    /\ kind \in {"sync", "priority", "parallel"}
    /\ pc = "returned"
    /\ pc' = "idle"
    /\ event_identifier' = NoEvent
    /\ found_invalid_weak_ref' = FALSE
    /\ priority' = NoPriority
    /\ entry' = NoCall
    /\ index' = 0
    /\ calls' = <<>>
    /\ traits_task' = <<>>
    /\ fns_task' = <<>>
    /\ traits_to_remove' = <<>>
    /\ fns_to_remove' = <<>>
    /\ UNCHANGED <<execVars, ret, kind, events, thread_pool, alive,
                   registered, listener_arc>>

\* what dispatch_event finds at its call
AtCall == [events |-> events, alive |-> alive, thread_pool |-> thread_pool]

\* the state after the registry's default(): empty map, no pool
InitRegistry(k) ==
    /\ kind = k
    /\ input = <<>>
    /\ vec = <<>>
    /\ index = 0
    /\ ret = Running
    /\ calls = <<>>
    /\ events = EmptyMap
    /\ thread_pool = NoPool
    /\ alive = Listeners
    /\ registered = [id \in Events |-> 0]
    /\ NoActivation

\* ------------------------------------------------------------------------
\* EventDispatcher
\* ------------------------------------------------------------------------

\* a mutant of EventDispatcher_add_listener: a listener already registered
\* for the identity is not registered again
EventDispatcher_add_listener_Dedup(id, l) ==
    /\ kind = "sync"
    /\ pc = "idle"
    /\ l \in alive
    /\ NumRegs < MaxSubs
    /\ events' = IF id \in DOMAIN events
                 THEN IF l \in Range(events[id].traits)
                      THEN events
                      ELSE [events EXCEPT ![id].traits = Append(@, l)]
                 ELSE insert(events, id, new_with_traits(<<l>>))
    /\ registered' = [registered EXCEPT ![id] = @ + 1]
    /\ UNCHANGED <<execVars, index, ret, calls, kind, thread_pool, alive, pc,
                   event_identifier, found_invalid_weak_ref, priority,
                   listener_arc, entry, parVars>>

\* EventDispatcher::add_listener
EventDispatcher_add_listener(id, l) ==
    /\ kind = "sync"
    /\ pc = "idle"
    /\ l \in alive
    /\ NumRegs < MaxSubs
    /\ events' = IF id \in DOMAIN events
                 THEN [events EXCEPT ![id].traits = Append(@, l)]
                 ELSE insert(events, id, new_with_traits(<<l>>))
    /\ registered' = [registered EXCEPT ![id] = @ + 1]
    /\ UNCHANGED <<execVars, index, ret, calls, kind, thread_pool, alive, pc,
                   event_identifier, found_invalid_weak_ref, priority,
                   listener_arc, entry, parVars>>

\* a mutant of EventDispatcher_add_fn: the closure is put in front of the
\* closures registered before
EventDispatcher_add_fn_Prepend(id, f) ==
    /\ kind = "sync"
    /\ pc = "idle"
    /\ f \notin OwnedClosures
    /\ NumRegs < MaxSubs
    /\ events' = IF id \in DOMAIN events
                 THEN [events EXCEPT ![id].fns = <<f>> \o @]
                 ELSE insert(events, id, new_with_fns(<<f>>))
    /\ registered' = [registered EXCEPT ![id] = @ + 1]
    /\ UNCHANGED <<execVars, index, ret, calls, kind, thread_pool, alive, pc,
                   event_identifier, found_invalid_weak_ref, priority,
                   listener_arc, entry, parVars>>

\* EventDispatcher::add_fn
EventDispatcher_add_fn(id, f) ==
    /\ kind = "sync"
    /\ pc = "idle"
    /\ f \notin OwnedClosures
    /\ NumRegs < MaxSubs
    /\ events' = IF id \in DOMAIN events
                 THEN [events EXCEPT ![id].fns = Append(@, f)]
                 ELSE insert(events, id, new_with_fns(<<f>>))
    /\ registered' = [registered EXCEPT ![id] = @ + 1]
    /\ UNCHANGED <<execVars, index, ret, calls, kind, thread_pool, alive, pc,
                   event_identifier, found_invalid_weak_ref, priority,
                   listener_arc, entry, parVars>>

\* a mutant of EventDispatcher_lookup: an unknown identity panics, as
\* indexing the map would
EventDispatcher_lookup_Index(evs, id) ==
    IF id \in DOMAIN evs THEN "traits" ELSE "panicked"

\* if let Some(listener_collection) = self.events.get_mut(event_identifier):
\* where dispatch_event goes from its call
EventDispatcher_lookup(evs, id) ==
    IF id \in DOMAIN evs THEN "traits" ELSE "returned"

\* EventDispatcher::dispatch_event is called
EventDispatcher_dispatch_event(id) ==
    /\ kind = "sync"
    /\ pc = "idle"
    /\ event_identifier' = id
    /\ entry' = AtCall
    /\ pc' = EventDispatcher_lookup(events, id)
    /\ UNCHANGED <<execVars, index, ret, calls, kind, events, thread_pool,
                   alive, registered, found_invalid_weak_ref, priority,
                   listener_arc, parVars>>

\* a mutant of EventDispatcher_after_traits: a stop among the listener
\* references ends the dispatch, as in the priority registry
EventDispatcher_after_traits_Break(result) ==
    IF result = Stopped THEN "returned" ELSE "fns"

\* the result of the run over the listener references is dropped: the run
\* over the closures follows
EventDispatcher_after_traits(result) == "fns"

\* the callback of the first run, up to the call of on_event: the weak
\* reference at vec[index] is upgraded; a failed upgrade sets the flag and
\* answers None
EventDispatcher_upgrade ==
    /\ kind = "sync"
    /\ pc = "traits"
    /\ InBounds(events[event_identifier].traits, index)
    /\ LET traits == events[event_identifier].traits
           weak_listener == traits[index + 1]
       IN IF upgrade(weak_listener)
          THEN /\ listener_arc' = weak_listener
               /\ pc' = "on_event"
               /\ UNCHANGED <<index, found_invalid_weak_ref, events>>
          ELSE /\ found_invalid_weak_ref' = TRUE
               /\ LET r == LoopStep(traits, index, None)
                  IN /\ events' = [events EXCEPT
                                      ![event_identifier].traits = r.vec]
                     /\ index' = r.index
               /\ UNCHANGED <<listener_arc, pc>>
    /\ UNCHANGED <<execVars, ret, calls, kind, thread_pool, alive, registered,
                   event_identifier, priority, entry, parVars>>

\* a mutant of EventDispatcher_on_event: the upgraded Arc is kept after the
\* callback
EventDispatcher_on_event_KeepArc(req) ==
    /\ kind = "sync"
    /\ pc = "on_event"
    /\ LET traits == events[event_identifier].traits
           r == LoopStep(traits, index, req)
       IN /\ events' = [events EXCEPT ![event_identifier].traits = r.vec]
          /\ calls' = Append(calls, Call(listener_arc, req, index, NoPriority))
          /\ IF r.ret = Running
             THEN pc' = "traits" /\ index' = r.index
             ELSE pc' = EventDispatcher_after_traits(r.ret) /\ index' = 0
    /\ UNCHANGED <<execVars, ret, kind, thread_pool, alive, registered,
                   event_identifier, found_invalid_weak_ref, priority, entry,
                   listener_arc, parVars>>

\* listener.on_event(event_identifier) returns req, the Arc and the lock are
\* released, and the run acts on the answer
EventDispatcher_on_event(req) ==
    /\ kind = "sync"
    /\ pc = "on_event"
    /\ LET traits == events[event_identifier].traits
           r == LoopStep(traits, index, req)
       IN /\ events' = [events EXCEPT ![event_identifier].traits = r.vec]
          /\ calls' = Append(calls, Call(listener_arc, req, index, NoPriority))
          /\ IF r.ret = Running
             THEN pc' = "traits" /\ index' = r.index
             ELSE pc' = EventDispatcher_after_traits(r.ret) /\ index' = 0
    /\ listener_arc' = NoListener
    /\ UNCHANGED <<execVars, ret, kind, thread_pool, alive, registered,
                   event_identifier, found_invalid_weak_ref, priority, entry,
                   parVars>>

\* the first run returns Finished
EventDispatcher_traits_finished ==
    /\ kind = "sync"
    /\ pc = "traits"
    /\ ~InBounds(events[event_identifier].traits, index)
    /\ pc' = EventDispatcher_after_traits(Finished)
    /\ index' = 0
    /\ UNCHANGED <<execVars, ret, calls, kind, events, thread_pool, alive,
                   registered, event_identifier, found_invalid_weak_ref,
                   priority, listener_arc, entry, parVars>>

\* one iteration of the second run: callback(event_identifier) returns req
EventDispatcher_call_fn(req) ==
    /\ kind = "sync"
    /\ pc = "fns"
    /\ InBounds(events[event_identifier].fns, index)
    /\ LET fns == events[event_identifier].fns
           r == LoopStep(fns, index, req)
       IN /\ events' = [events EXCEPT ![event_identifier].fns = r.vec]
          /\ calls' = Append(calls, Call(fns[index + 1], req, index, NoPriority))
          /\ IF r.ret = Running
             THEN pc' = "fns" /\ index' = r.index
             ELSE pc' = "sweep" /\ index' = 0
    /\ UNCHANGED <<execVars, ret, kind, thread_pool, alive, registered,
                   event_identifier, found_invalid_weak_ref, priority,
                   listener_arc, entry, parVars>>

\* the second run returns Finished
EventDispatcher_fns_finished ==
    /\ kind = "sync"
    /\ pc = "fns"
    /\ ~InBounds(events[event_identifier].fns, index)
    /\ pc' = "sweep"
    /\ index' = 0
    /\ UNCHANGED <<execVars, ret, calls, kind, events, thread_pool, alive,
                   registered, event_identifier, found_invalid_weak_ref,
                   priority, listener_arc, entry, parVars>>

\* a mutant of EventDispatcher_sweep: a collection left empty is taken out of
\* the map
EventDispatcher_sweep_DropEmpty ==
    /\ kind = "sync"
    /\ pc = "sweep"
    /\ LET swept == IF found_invalid_weak_ref
                    THEN [events EXCEPT ![event_identifier].traits =
                             retain_upgradable(@)]
                    ELSE events
       IN events' = IF swept[event_identifier] = [traits |-> <<>>, fns |-> <<>>]
                    THEN [id \in DOMAIN swept \ {event_identifier} |-> swept[id]]
                    ELSE swept
    /\ pc' = "returned"
    /\ UNCHANGED <<execVars, index, ret, calls, kind, thread_pool, alive,
                   registered, event_identifier, found_invalid_weak_ref,
                   priority, listener_arc, entry, parVars>>

\* if found_invalid_weak_ref { traits.retain(..) }, and the end of the body
EventDispatcher_sweep ==
    /\ kind = "sync"
    /\ pc = "sweep"
    /\ events' = IF found_invalid_weak_ref
                 THEN [events EXCEPT ![event_identifier].traits =
                          retain_upgradable(@)]
                 ELSE events
    /\ pc' = "returned"
    /\ UNCHANGED <<execVars, index, ret, calls, kind, thread_pool, alive,
                   registered, event_identifier, found_invalid_weak_ref,
                   priority, listener_arc, entry, parVars>>

SyncSteps ==
    \/ \E id \in Events, l \in Listeners : EventDispatcher_add_listener(id, l)
    \/ \E id \in Events, f \in Closures : EventDispatcher_add_fn(id, f)
    \/ \E id \in Events : EventDispatcher_dispatch_event(id)
    \/ EventDispatcher_upgrade
    \/ \E req \in SyncAnswers : EventDispatcher_on_event(req)
    \/ EventDispatcher_traits_finished
    \/ \E req \in SyncAnswers : EventDispatcher_call_fn(req)
    \/ EventDispatcher_fns_finished
    \/ EventDispatcher_sweep

NextSync == SyncSteps \/ Return \/ \E l \in Listeners : Drop(l)

SpecSync == InitRegistry("sync") /\ [][NextSync]_vars

\* ------------------------------------------------------------------------
\* PriorityEventDispatcher
\* ------------------------------------------------------------------------

\* the priority keys P of the model, ordered as the integers are
Priorities == 1 .. 2

\* PriorityEventDispatcher::add_listener
PriorityEventDispatcher_add_listener(id, l, p) ==
    /\ kind = "priority"
    /\ pc = "idle"
    /\ l \in alive
    /\ NumRegs < MaxPrioritySubs
    /\ events' =
          IF id \in DOMAIN events
          THEN IF p \in DOMAIN events[id]
               THEN [events EXCEPT ![id][p].traits = Append(@, l)]
               ELSE [events EXCEPT
                        ![id] = insert(@, p, new_with_traits(<<l>>))]
          ELSE insert(events, id, insert(<<>>, p, new_with_traits(<<l>>)))
    /\ registered' = [registered EXCEPT ![id] = @ + 1]
    /\ UNCHANGED <<execVars, index, ret, calls, kind, thread_pool, alive, pc,
                   event_identifier, found_invalid_weak_ref, priority,
                   listener_arc, entry, parVars>>

\* PriorityEventDispatcher::add_fn
PriorityEventDispatcher_add_fn(id, f, p) ==
    /\ kind = "priority"
    /\ pc = "idle"
    /\ f \notin OwnedClosures
    /\ NumRegs < MaxPrioritySubs
    /\ events' =
          IF id \in DOMAIN events
          THEN IF p \in DOMAIN events[id]
               THEN [events EXCEPT ![id][p].fns = Append(@, f)]
               ELSE [events EXCEPT ![id] = insert(@, p, new_with_fns(<<f>>))]
          ELSE insert(events, id, insert(<<>>, p, new_with_fns(<<f>>)))
    /\ registered' = [registered EXCEPT ![id] = @ + 1]
    /\ UNCHANGED <<execVars, index, ret, calls, kind, thread_pool, alive, pc,
                   event_identifier, found_invalid_weak_ref, priority,
                   listener_arc, entry, parVars>>

\* if let Some(prioritised_listener_collection) = self.events.get_mut(..):
\* where dispatch_event goes from its call
PriorityEventDispatcher_lookup(evs, id) ==
    IF id \in DOMAIN evs THEN "for" ELSE "returned"

\* PriorityEventDispatcher::dispatch_event is called
PriorityEventDispatcher_dispatch_event(id) ==
    /\ kind = "priority"
    /\ pc = "idle"
    /\ event_identifier' = id
    /\ entry' = AtCall
    /\ pc' = PriorityEventDispatcher_lookup(events, id)
    /\ UNCHANGED <<execVars, index, ret, calls, kind, events, thread_pool,
                   alive, registered, found_invalid_weak_ref, priority,
                   listener_arc, parVars>>

\* the keys BTreeMap::iter_mut has still to yield after key p
TiersAfter(tiers, p) == {q \in DOMAIN tiers : q > p}

\* a mutant of next_key: the tiers are visited from the largest key down
next_key_Descending(keys) == CHOOSE q \in keys : \A o \in keys : o <= q

\* BTreeMap::iter_mut yields the smallest key not yet yielded
next_key(keys) == CHOOSE q \in keys : \A o \in keys : q <= o

\* the head of `for (_, listener_collection) in ..iter_mut()`: the next tier
\* and a fresh found_invalid_weak_ref, or the end of the loop
PriorityEventDispatcher_for ==
    /\ kind = "priority"
    /\ pc = "for"
    /\ LET left == TiersAfter(events[event_identifier], priority)
       IN IF left # {}
          THEN /\ priority' = next_key(left)
               /\ found_invalid_weak_ref' = FALSE
               /\ index' = 0
               /\ pc' = "traits"
          ELSE /\ pc' = "returned"
               /\ UNCHANGED <<priority, found_invalid_weak_ref, index>>
    /\ UNCHANGED <<execVars, ret, calls, kind, events, thread_pool, alive,
                   registered, event_identifier, listener_arc, entry, parVars>>

\* a mutant of PriorityEventDispatcher_after_run: a Stopped run does not end
\* the dispatch
PriorityEventDispatcher_after_run_NoBreak(result, next) == next

\* if let ExecuteRequestsResult::Stopped = .. { break; }: a Stopped run
\* leaves the loop over the tiers, any other goes on with `next`
PriorityEventDispatcher_after_run(result, next) ==
    IF result = Stopped THEN "returned" ELSE next

\* the callback of a tier's first run, up to the call of on_event
PriorityEventDispatcher_upgrade ==
    /\ kind = "priority"
    /\ pc = "traits"
    /\ InBounds(events[event_identifier][priority].traits, index)
    /\ LET traits == events[event_identifier][priority].traits
           weak_listener == traits[index + 1]
       IN IF upgrade(weak_listener)
          THEN /\ listener_arc' = weak_listener
               /\ pc' = "on_event"
               /\ UNCHANGED <<index, found_invalid_weak_ref, events>>
          ELSE /\ found_invalid_weak_ref' = TRUE
               /\ LET r == LoopStep(traits, index, None)
                  IN /\ events' = [events EXCEPT
                            ![event_identifier][priority].traits = r.vec]
                     /\ index' = r.index
               /\ UNCHANGED <<listener_arc, pc>>
    /\ UNCHANGED <<execVars, ret, calls, kind, thread_pool, alive, registered,
                   event_identifier, priority, entry, parVars>>

\* listener.on_event(event_identifier) returns req and the run acts on it
PriorityEventDispatcher_on_event(req) ==
    /\ kind = "priority"
    /\ pc = "on_event"
    /\ LET traits == events[event_identifier][priority].traits
           r == LoopStep(traits, index, req)
       IN /\ events' = [events EXCEPT
                           ![event_identifier][priority].traits = r.vec]
          /\ calls' = Append(calls, Call(listener_arc, req, index, priority))
          /\ IF r.ret = Running
             THEN pc' = "traits" /\ index' = r.index
             ELSE /\ pc' = PriorityEventDispatcher_after_run(r.ret, "fns")
                  /\ index' = 0
    /\ listener_arc' = NoListener
    /\ UNCHANGED <<execVars, ret, kind, thread_pool, alive, registered,
                   event_identifier, found_invalid_weak_ref, priority, entry,
                   parVars>>

\* a tier's first run returns Finished
PriorityEventDispatcher_traits_finished ==
    /\ kind = "priority"
    /\ pc = "traits"
    /\ ~InBounds(events[event_identifier][priority].traits, index)
    /\ pc' = PriorityEventDispatcher_after_run(Finished, "fns")
    /\ index' = 0
    /\ UNCHANGED <<execVars, ret, calls, kind, events, thread_pool, alive,
                   registered, event_identifier, found_invalid_weak_ref,
                   priority, listener_arc, entry, parVars>>

\* one iteration of a tier's second run: callback(event_identifier)
PriorityEventDispatcher_call_fn(req) ==
    /\ kind = "priority"
    /\ pc = "fns"
    /\ InBounds(events[event_identifier][priority].fns, index)
    /\ LET fns == events[event_identifier][priority].fns
           r == LoopStep(fns, index, req)
       IN /\ events' = [events EXCEPT
                           ![event_identifier][priority].fns = r.vec]
          /\ calls' = Append(calls, Call(fns[index + 1], req, index, priority))
          /\ IF r.ret = Running
             THEN pc' = "fns" /\ index' = r.index
             ELSE /\ pc' = PriorityEventDispatcher_after_run(r.ret, "sweep")
                  /\ index' = 0
    /\ UNCHANGED <<execVars, ret, kind, thread_pool, alive, registered,
                   event_identifier, found_invalid_weak_ref, priority,
                   listener_arc, entry, parVars>>

\* a tier's second run returns Finished
PriorityEventDispatcher_fns_finished ==
    /\ kind = "priority"
    /\ pc = "fns"
    /\ ~InBounds(events[event_identifier][priority].fns, index)
    /\ pc' = PriorityEventDispatcher_after_run(Finished, "sweep")
    /\ index' = 0
    /\ UNCHANGED <<execVars, ret, calls, kind, events, thread_pool, alive,
                   registered, event_identifier, found_invalid_weak_ref,
                   priority, listener_arc, entry, parVars>>

\* if found_invalid_weak_ref { traits.retain(..) }, the end of the loop body
PriorityEventDispatcher_sweep ==
    /\ kind = "priority"
    /\ pc = "sweep"
    /\ events' = IF found_invalid_weak_ref
                 THEN [events EXCEPT ![event_identifier][priority].traits =
                          retain_upgradable(@)]
                 ELSE events
    /\ pc' = "for"
    /\ UNCHANGED <<execVars, index, ret, calls, kind, thread_pool, alive,
                   registered, event_identifier, found_invalid_weak_ref,
                   priority, listener_arc, entry, parVars>>

PrioritySteps ==
    \/ \E id \in Events, l \in Listeners, p \in Priorities :
          PriorityEventDispatcher_add_listener(id, l, p)
    \/ \E id \in Events, f \in Closures, p \in Priorities :
          PriorityEventDispatcher_add_fn(id, f, p)
    \/ \E id \in Events : PriorityEventDispatcher_dispatch_event(id)
    \/ PriorityEventDispatcher_for
    \/ PriorityEventDispatcher_upgrade
    \/ \E req \in SyncAnswers : PriorityEventDispatcher_on_event(req)
    \/ PriorityEventDispatcher_traits_finished
    \/ \E req \in SyncAnswers : PriorityEventDispatcher_call_fn(req)
    \/ PriorityEventDispatcher_fns_finished
    \/ PriorityEventDispatcher_sweep

NextPriority == PrioritySteps \/ Return \/ \E l \in Listeners : Drop(l)

SpecPriority == InitRegistry("priority") /\ [][NextPriority]_vars

\* ------------------------------------------------------------------------
\* ParallelEventDispatcher
\* ------------------------------------------------------------------------

\* Option<ParallelDispatcherRequest>
ParallelAnswers == {None, StopListening}

\* ParallelEventDispatcher::add_listener
ParallelEventDispatcher_add_listener(id, l) ==
    /\ kind = "parallel"
    /\ pc = "idle"
    /\ l \in alive
    /\ NumRegs < MaxParallelSubs
    /\ events' = IF id \in DOMAIN events
                 THEN [events EXCEPT ![id].traits = Append(@, l)]
                 ELSE insert(events, id, new_with_traits(<<l>>))
    /\ registered' = [registered EXCEPT ![id] = @ + 1]
    /\ ret' = Running
    /\ UNCHANGED <<execVars, index, calls, kind, thread_pool, alive, pc,
                   event_identifier, found_invalid_weak_ref, priority,
                   listener_arc, entry, parVars>>

\* ParallelEventDispatcher::add_fn
ParallelEventDispatcher_add_fn(id, f) ==
    /\ kind = "parallel"
    /\ pc = "idle"
    /\ f \notin OwnedClosures
    /\ NumRegs < MaxParallelSubs
    /\ events' = IF id \in DOMAIN events
                 THEN [events EXCEPT ![id].fns = Append(@, f)]
                 ELSE insert(events, id, new_with_fns(<<f>>))
    /\ registered' = [registered EXCEPT ![id] = @ + 1]
    /\ ret' = Running
    /\ UNCHANGED <<execVars, index, calls, kind, thread_pool, alive, pc,
                   event_identifier, found_invalid_weak_ref, priority,
                   listener_arc, entry, parVars>>

\* a mutant of ParallelEventDispatcher_num_threads: a failed build leaves the
\* registry without a pool
ParallelEventDispatcher_num_threads_ClearOnErr(num, built) ==
    /\ kind = "parallel"
    /\ pc = "idle"
    /\ IF built
       THEN thread_pool' = {num} /\ ret' = "Ok"
       ELSE thread_pool' = NoPool /\ ret' = "Err"
    /\ UNCHANGED <<execVars, index, calls, kind, events, alive, registered,
                   pc, event_identifier, found_invalid_weak_ref, priority,
                   listener_arc, entry, parVars>>

\* ParallelEventDispatcher::num_threads: ThreadPoolBuilder::build() gives a
\* pool, which replaces thread_pool, or an error, which is returned
ParallelEventDispatcher_num_threads(num, built) ==
    /\ kind = "parallel"
    /\ pc = "idle"
    /\ IF built
       THEN thread_pool' = {num} /\ ret' = "Ok"
       ELSE thread_pool' = thread_pool /\ ret' = "Err"
    /\ UNCHANGED <<execVars, index, calls, kind, events, alive, registered,
                   pc, event_identifier, found_invalid_weak_ref, priority,
                   listener_arc, entry, parVars>>

\* if let Some(listener_collection) = self.events.get_mut(event_identifier):
\* where dispatch_event goes from its call
ParallelEventDispatcher_lookup(evs, id) ==
    IF id \in DOMAIN evs THEN "join" ELSE "returned"

\* a mutant of ParallelEventDispatcher_dispatch_event: without a pool only
\* the task over the listener references is run
ParallelEventDispatcher_dispatch_event_InlineSkipsFns(id) ==
    /\ kind = "parallel"
    /\ pc = "idle"
    /\ event_identifier' = id
    /\ entry' = AtCall
    /\ pc' = ParallelEventDispatcher_lookup(events, id)
    /\ IF id \in DOMAIN events
       THEN /\ traits_task' = [k \in 1 .. Len(events[id].traits) |-> "todo"]
            /\ fns_task' = IF thread_pool = NoPool
                           THEN <<>>
                           ELSE [k \in 1 .. Len(events[id].fns) |-> "todo"]
       ELSE UNCHANGED <<traits_task, fns_task>>
    /\ ret' = Running
    /\ UNCHANGED <<execVars, index, calls, kind, events, thread_pool, alive,
                   registered, found_invalid_weak_ref, priority, listener_arc,
                   traits_to_remove, fns_to_remove>>

\* ParallelEventDispatcher::dispatch_event is called: with a collection, the
\* two removal lists are created and joined_parallel_dispatch starts, inside
\* the pool or not
ParallelEventDispatcher_dispatch_event(id) ==
    /\ kind = "parallel"
    /\ pc = "idle"
    /\ event_identifier' = id
    /\ entry' = AtCall
    /\ pc' = ParallelEventDispatcher_lookup(events, id)
    /\ IF id \in DOMAIN events
       THEN /\ traits_task' = [k \in 1 .. Len(events[id].traits) |-> "todo"]
            /\ fns_task' = [k \in 1 .. Len(events[id].fns) |-> "todo"]
       ELSE UNCHANGED <<traits_task, fns_task>>
    /\ ret' = Running
    /\ UNCHANGED <<execVars, index, calls, kind, events, thread_pool, alive,
                   registered, found_invalid_weak_ref, priority, listener_arc,
                   traits_to_remove, fns_to_remove>>

\* the threads that run the tasks: the configured pool's, or the global pool's
Threads ==
    IF thread_pool = NoPool THEN MaxThreads
    ELSE CHOOSE n \in thread_pool : TRUE

\* the closure bodies a thread is in the middle of
InProgress ==
    Cardinality({k \in DOMAIN traits_task :
                    traits_task[k] \in {"arc", "locked", "push"}})

\* a thread takes a listener reference and upgrades it; a failed upgrade
\* pushes the index to traits_to_remove
joined_parallel_dispatch_upgrade(k) ==
    /\ kind = "parallel"
    /\ pc = "join"
    /\ k \in DOMAIN traits_task
    /\ traits_task[k] = "todo"
    /\ InProgress < Threads
    /\ IF upgrade(events[event_identifier].traits[k])
       THEN /\ traits_task' = [traits_task EXCEPT ![k] = "arc"]
            /\ UNCHANGED traits_to_remove
       ELSE /\ traits_task' = [traits_task EXCEPT ![k] = "done"]
            /\ traits_to_remove' = Append(traits_to_remove, k - 1)
    /\ UNCHANGED <<execVars, index, ret, calls, kind, events, thread_pool,
                   alive, registered, pc, event_identifier,
                   found_invalid_weak_ref, priority, listener_arc, entry,
                   fns_task, fns_to_remove>>

\* the listener's Mutex is held by a closure body
Locked(l) ==
    \E j \in DOMAIN traits_task :
        /\ events[event_identifier].traits[j] = l
        /\ traits_task[j] \in {"locked", "push"}

\* a mutant of joined_parallel_dispatch_lock: the lock is taken without
\* waiting for the listener's Mutex to be free
joined_parallel_dispatch_lock_NoWait(k) ==
    /\ kind = "parallel"
    /\ pc = "join"
    /\ k \in DOMAIN traits_task
    /\ traits_task[k] = "arc"
    /\ traits_task' = [traits_task EXCEPT ![k] = "locked"]
    /\ UNCHANGED <<execVars, index, ret, calls, kind, events, thread_pool,
                   alive, registered, pc, event_identifier,
                   found_invalid_weak_ref, priority, listener_arc, entry,
                   fns_task, traits_to_remove, fns_to_remove>>

\* listener_arc.lock(): waits until the listener's Mutex is free
joined_parallel_dispatch_lock(k) ==
    /\ kind = "parallel"
    /\ pc = "join"
    /\ k \in DOMAIN traits_task
    /\ traits_task[k] = "arc"
    /\ ~Locked(events[event_identifier].traits[k])
    /\ traits_task' = [traits_task EXCEPT ![k] = "locked"]
    /\ UNCHANGED <<execVars, index, ret, calls, kind, events, thread_pool,
                   alive, registered, pc, event_identifier,
                   found_invalid_weak_ref, priority, listener_arc, entry,
                   fns_task, traits_to_remove, fns_to_remove>>

\* listener.on_event(event_identifier) returns req: with None the guard and
\* the Arc go out of scope, with StopListening the push is next
joined_parallel_dispatch_on_event(k, req) ==
    /\ kind = "parallel"
    /\ pc = "join"
    /\ k \in DOMAIN traits_task
    /\ traits_task[k] = "locked"
    /\ calls' = Append(calls, Call(events[event_identifier].traits[k], req,
                                   k - 1, NoPriority))
    /\ traits_task' = [traits_task EXCEPT
                          ![k] = IF req = StopListening THEN "push" ELSE "done"]
    /\ UNCHANGED <<execVars, index, ret, kind, events, thread_pool, alive,
                   registered, pc, event_identifier, found_invalid_weak_ref,
                   priority, listener_arc, entry, fns_task, traits_to_remove,
                   fns_to_remove>>

\* traits_to_remove.lock().push(index), the listener's guard still in scope;
\* then the guard and the Arc go out of scope
joined_parallel_dispatch_push(k) ==
    /\ kind = "parallel"
    /\ pc = "join"
    /\ k \in DOMAIN traits_task
    /\ traits_task[k] = "push"
    /\ traits_to_remove' = Append(traits_to_remove, k - 1)
    /\ traits_task' = [traits_task EXCEPT ![k] = "done"]
    /\ UNCHANGED <<execVars, index, ret, calls, kind, events, thread_pool,
                   alive, registered, pc, event_identifier,
                   found_invalid_weak_ref, priority, listener_arc, entry,
                   fns_task, fns_to_remove>>

\* a thread takes a closure: callback(event_identifier) returns req, and
\* StopListening pushes the index to fns_to_remove
joined_parallel_dispatch_call_fn(k, req) ==
    /\ kind = "parallel"
    /\ pc = "join"
    /\ k \in DOMAIN fns_task
    /\ fns_task[k] = "todo"
    /\ InProgress < Threads
    /\ calls' = Append(calls, Call(events[event_identifier].fns[k], req,
                                   k - 1, NoPriority))
    /\ fns_task' = [fns_task EXCEPT ![k] = "done"]
    /\ fns_to_remove' = IF req = StopListening
                        THEN Append(fns_to_remove, k - 1)
                        ELSE fns_to_remove
    /\ UNCHANGED <<execVars, index, ret, kind, events, thread_pool, alive,
                   registered, pc, event_identifier, found_invalid_weak_ref,
                   priority, listener_arc, entry, traits_task,
                   traits_to_remove>>

\* iter().for_each(|index| { v.swap_remove(*index); }): the vector after the
\* removals, or, when an index is out of bounds, the vector as it is at the
\* panic
RECURSIVE remove_each(_, _)
remove_each(v, indices) ==
    IF indices = <<>> THEN [vec |-> v, ok |-> TRUE]
    ELSE IF Head(indices) < Len(v)
         THEN remove_each(swap_remove(v, Head(indices)), Tail(indices))
         ELSE [vec |-> v, ok |-> FALSE]

\* join has returned: both tasks are through every element. The removals
\* recorded for the closures are applied
ParallelEventDispatcher_remove_fns ==
    /\ kind = "parallel"
    /\ pc = "join"
    /\ \A k \in DOMAIN traits_task : traits_task[k] = "done"
    /\ \A k \in DOMAIN fns_task : fns_task[k] = "done"
    /\ LET r == remove_each(events[event_identifier].fns, fns_to_remove)
       IN /\ events' = [events EXCEPT ![event_identifier].fns = r.vec]
          /\ pc' = IF r.ok THEN "remove_traits" ELSE "panicked"
    /\ UNCHANGED <<execVars, index, ret, calls, kind, thread_pool, alive,
                   registered, event_identifier, found_invalid_weak_ref,
                   priority, listener_arc, entry, parVars>>

\* a mutant of ParallelEventDispatcher_remove_traits: the positions recorded
\* for the closures are applied to the listener references
ParallelEventDispatcher_remove_traits_FromFns ==
    /\ kind = "parallel"
    /\ pc = "remove_traits"
    /\ LET r == remove_each(events[event_identifier].traits, fns_to_remove)
       IN /\ events' = [events EXCEPT ![event_identifier].traits = r.vec]
          /\ pc' = IF r.ok THEN "returned" ELSE "panicked"
    /\ UNCHANGED <<execVars, index, ret, calls, kind, thread_pool, alive,
                   registered, event_identifier, found_invalid_weak_ref,
                   priority, listener_arc, entry, parVars>>

\* the removals recorded for the listener references are applied
ParallelEventDispatcher_remove_traits ==
    /\ kind = "parallel"
    /\ pc = "remove_traits"
    /\ LET r == remove_each(events[event_identifier].traits, traits_to_remove)
       IN /\ events' = [events EXCEPT ![event_identifier].traits = r.vec]
          /\ pc' = IF r.ok THEN "returned" ELSE "panicked"
    /\ UNCHANGED <<execVars, index, ret, calls, kind, thread_pool, alive,
                   registered, event_identifier, found_invalid_weak_ref,
                   priority, listener_arc, entry, parVars>>

ParallelSteps ==
    \/ \E id \in Events, l \in Listeners :
          ParallelEventDispatcher_add_listener(id, l)
    \/ \E id \in Events, f \in Closures : ParallelEventDispatcher_add_fn(id, f)
    \/ \E num \in 1 .. MaxThreads, built \in BOOLEAN :
          ParallelEventDispatcher_num_threads(num, built)
    \/ \E id \in Events : ParallelEventDispatcher_dispatch_event(id)
    \/ \E k \in 1 .. MaxParallelSubs : joined_parallel_dispatch_upgrade(k)
    \/ \E k \in 1 .. MaxParallelSubs : joined_parallel_dispatch_lock(k)
    \/ \E k \in 1 .. MaxParallelSubs, req \in ParallelAnswers :
          joined_parallel_dispatch_on_event(k, req)
    \/ \E k \in 1 .. MaxParallelSubs : joined_parallel_dispatch_push(k)
    \/ \E k \in 1 .. MaxParallelSubs, req \in ParallelAnswers :
          joined_parallel_dispatch_call_fn(k, req)
    \/ ParallelEventDispatcher_remove_fns
    \/ ParallelEventDispatcher_remove_traits

NextParallel == ParallelSteps \/ Return \/ \E l \in Listeners : Drop(l)

SpecParallel == InitRegistry("parallel") /\ [][NextParallel]_vars

\* ------------------------------------------------------------------------
\* Any of the three registries
\* ------------------------------------------------------------------------

Init == \E k \in {"sync", "priority", "parallel"} : InitRegistry(k)

Next ==
    \/ SyncSteps
    \/ PrioritySteps
    \/ ParallelSteps
    \/ Return
    \/ \E l \in Listeners : Drop(l)

Spec == Init /\ [][Next]_vars

\* ------------------------------------------------------------------------
\* The two synchronous registries, a dispatch_event running to its return
\* ------------------------------------------------------------------------

InitSynchronous == \E k \in {"sync", "priority"} : InitRegistry(k)

\* the steps inside a dispatch_event of EventDispatcher, up to its return
EventDispatcher_run ==
    \/ EventDispatcher_upgrade
    \/ \E req \in SyncAnswers : EventDispatcher_on_event(req)
    \/ EventDispatcher_traits_finished
    \/ \E req \in SyncAnswers : EventDispatcher_call_fn(req)
    \/ EventDispatcher_fns_finished
    \/ EventDispatcher_sweep

\* the steps inside a dispatch_event of PriorityEventDispatcher
PriorityEventDispatcher_run ==
    \/ PriorityEventDispatcher_for
    \/ PriorityEventDispatcher_upgrade
    \/ \E req \in SyncAnswers : PriorityEventDispatcher_on_event(req)
    \/ PriorityEventDispatcher_traits_finished
    \/ \E req \in SyncAnswers : PriorityEventDispatcher_call_fn(req)
    \/ PriorityEventDispatcher_fns_finished
    \/ PriorityEventDispatcher_sweep

NextSynchronous ==
    \/ SyncSteps
    \/ PrioritySteps
    \/ Return
    \/ \E l \in Listeners : Drop(l)

\* dispatch_event is sequential code and every callback returns: a call that
\* was made takes its next step, up to and including its return
SpecSynchronous ==
    /\ InitSynchronous
    /\ [][NextSynchronous]_vars
    /\ WF_vars(EventDispatcher_run \/ PriorityEventDispatcher_run \/ Return)

\* ------------------------------------------------------------------------
\* Claims about one run of execute_sync_dispatcher_requests (SpecExec)
\* ------------------------------------------------------------------------

Last(s) == s[Len(s)]

\* the visited elements that answered StopListening or
\* StopListeningAndPropagation
Removers ==
    {calls[k] : k \in {j \in 1 .. Len(calls) :
        function(calls[j]) \in {StopListening, StopListeningAndPropagation}}}

\* some visited element answered StopPropagation or StopListeningAndPropagation
SomeStopAnswered ==
    \E k \in 1 .. Len(calls) :
        function(calls[k]) \in {StopPropagation, StopListeningAndPropagation}

\* C1: when a run has returned, the vector holds exactly the input's elements
\* other than the visited ones that answered StopListening or
\* StopListeningAndPropagation, each once, and the result is Stopped iff a
\* visited element answered StopPropagation or StopListeningAndPropagation,
\* and Finished otherwise.
C1_RunContract ==
    ret # Running =>
        /\ Range(vec) = Range(input) \ Removers
        /\ Len(vec) = Cardinality(Range(input) \ Removers)
        /\ Removers \subseteq Range(input)
        /\ ret = Stopped <=> SomeStopAnswered
        /\ ret = Finished <=> ~SomeStopAnswered

\* a run that removed two elements, kept others and was stopped
C1_Witness ==
    /\ ret = Stopped
    /\ Cardinality(Removers) >= 2
    /\ Len(vec) >= 2
    /\ Len(calls) < Len(input)

\* C2: a step whose element answers StopListening puts the last element into
\* the current slot, shrinks the vector by one and keeps the index; every call
\* is made on the element in the slot at the index, so the swapped-in element
\* is visited next; and <<0,0,0,1,1,1,1>> ends as <<1,0,0,1,1,1>>, Stopped.
C2_StopListeningStep ==
    /\ [][(/\ ret = Running
           /\ index < Len(vec)
           /\ function(vec[index + 1]) = StopListening)
          => /\ Len(vec') = Len(vec) - 1
             /\ \A k \in 1 .. Len(vec') :
                   vec'[k] = IF k = index + 1 THEN vec[Len(vec)] ELSE vec[k]
             /\ index' = index
             /\ ret' = Running]_vars
    /\ [][Len(calls') > Len(calls)
          => calls' = Append(calls, vec[index + 1])]_vars
    /\ []((Vals(input) = <<0, 0, 0, 1, 1, 1, 1>> /\ ret # Running)
          => (Vals(vec) = <<1, 0, 0, 1, 1, 1>> /\ ret = Stopped))

\* the unit test stop_listening has run to its end: the last element (a 1)
\* was swapped into slot 0 and answered StopPropagation
C2_Witness ==
    /\ Vals(input) = <<0, 0, 0, 1, 1, 1, 1>>
    /\ ret = Stopped
    /\ Len(calls) = 2
    /\ calls[2] = input[7]

\* C3: a step whose element answers StopPropagation returns Stopped and
\* changes neither the vector nor the index; a run that has returned takes no
\* further step; and when the last answer was StopPropagation the answering
\* element is still in its slot and no element of a later slot was called.
C3_StopPropagationStep ==
    /\ [][(/\ ret = Running
           /\ index < Len(vec)
           /\ function(vec[index + 1]) = StopPropagation)
          => /\ vec' = vec
             /\ index' = index
             /\ ret' = Stopped]_vars
    /\ [](ret # Running => ~ENABLED NextExec)
    /\ []((/\ Len(calls) > 0
           /\ function(Last(calls)) = StopPropagation)
          => /\ ret = Stopped
             /\ index < Len(vec)
             /\ vec[index + 1] = Last(calls)
             /\ \A j \in (index + 2) .. Len(vec) : vec[j] \notin Range(calls))

\* a run stopped by StopPropagation after an earlier removal, with elements
\* in later slots
C3_Witness ==
    /\ ret = Stopped
    /\ Len(calls) >= 2
    /\ function(Last(calls)) = StopPropagation
    /\ index + 1 < Len(vec)
    /\ Len(vec) < Len(input)

\* C4: a step whose element answers StopListeningAndPropagation removes it by
\* swap-with-last and returns Stopped; afterwards the removed element is gone
\* and neither the swapped-in element nor any element of a later slot was
\* called; and <<2,0>> ends as <<0>>, Stopped.
C4_StopListeningAndPropagationStep ==
    /\ [][(/\ ret = Running
           /\ index < Len(vec)
           /\ function(vec[index + 1]) = StopListeningAndPropagation)
          => /\ Len(vec') = Len(vec) - 1
             /\ \A k \in 1 .. Len(vec') :
                   vec'[k] = IF k = index + 1 THEN vec[Len(vec)] ELSE vec[k]
             /\ index' = index
             /\ ret' = Stopped]_vars
    /\ []((/\ Len(calls) > 0
           /\ function(Last(calls)) = StopListeningAndPropagation)
          => /\ ret = Stopped
             /\ Last(calls) \notin Range(vec)
             /\ \A j \in (index + 1) .. Len(vec) : vec[j] \notin Range(calls))
    /\ []((Vals(input) = <<2, 0>> /\ ret # Running)
          => (Vals(vec) = <<0>> /\ ret = Stopped /\ Len(calls) = 1))

\* a run ended by StopListeningAndPropagation with an unvisited element
\* swapped into the freed slot
C4_Witness ==
    /\ ret = Stopped
    /\ Len(calls) > 0
    /\ function(Last(calls)) = StopListeningAndPropagation
    /\ index < Len(vec)
    /\ vec[index + 1] \notin Range(calls)

AllStopListening == \A k \in 1 .. Len(input) : function(input[k]) = StopListening

\* C5: when every element of the input answers StopListening, the callback is
\* never called more often than there are elements, and the run returns
\* Finished with an empty vector after calling each input element once.
C5_RemovingAll ==
    AllStopListening =>
        /\ Len(calls) <= Len(input)
        /\ ret \in {Running, Finished}
        /\ ret = Finished =>
              /\ vec = <<>>
              /\ Len(calls) = Len(input)
              /\ Range(calls) = Range(input)

\* the unit test removing_all has returned
C5_Witness ==
    /\ AllStopListening
    /\ Len(input) = 7
    /\ ret = Finished

\* C6: on an empty input the callback is never called, the vector stays
\* empty, and the only result is Finished.
C6_EmptyVec ==
    input = <<>> =>
        /\ calls = <<>>
        /\ vec = <<>>
        /\ ret \in {Running, Finished}

\* the run on the empty vector has returned
C6_Witness == input = <<>> /\ ret = Finished

\* ------------------------------------------------------------------------
\* Claims about dispatch_event of the registries
\* ------------------------------------------------------------------------

\* the listeners whose last strong owner was dropped before the call
DroppedBefore == Listeners \ entry.alive

Stops == {StopPropagation, StopListeningAndPropagation}

Called == {calls[k].sub : k \in 1 .. Len(calls)}

\* C7: a dispatch_event for an identity no registration was ever made for,
\* in any of the three registries, goes straight to its return: no panic, no
\* subscriber invoked, no task started, the map and the pool as at the call.
C7_UnknownIdentity ==
    (event_identifier # NoEvent /\ registered[event_identifier] = 0) =>
        /\ pc = "returned"
        /\ calls = <<>>
        /\ traits_task = <<>> /\ fns_task = <<>>
        /\ traits_to_remove = <<>> /\ fns_to_remove = <<>>
        /\ events = entry.events
        /\ thread_pool = entry.thread_pool

\* a parallel registry with a pool and a subscriber of another identity has
\* returned from a dispatch of an identity never registered
C7_Witness ==
    /\ kind = "parallel"
    /\ pc = "returned"
    /\ registered[event_identifier] = 0
    /\ thread_pool # NoPool
    /\ DOMAIN events # {}

C9_LastReceiver ==
    kind \in {"sync", "priority"} =>
        \A i, j \in 1 .. Len(calls) :
            i < j => calls[i].req # StopPropagation

\* the same for the priority registry alone
C9_LastReceiverPriority ==
    kind = "priority" =>
        \A i, j \in 1 .. Len(calls) :
            i < j => calls[i].req # StopPropagation

\* C10 as stated: when EventDispatcher::dispatch_event returns, no listener
\* dropped before the call was invoked and the identity's listener references
\* hold none of them, whatever the other subscribers answered.
C10_PurgedAtReturn ==
    (kind = "sync" /\ pc = "returned" /\ event_identifier \in DOMAIN events) =>
        \A l \in DroppedBefore :
            /\ l \notin Called
            /\ l \notin Range(events[event_identifier].traits)

\* a listener answered StopPropagation or StopListeningAndPropagation
ListenerStopped ==
    \E k \in 1 .. Len(calls) :
        calls[k].sub \in Listeners /\ calls[k].req \in Stops

\* C10 amended: a listener dropped before the call is never invoked; when the
\* call returns the references to such listeners are gone if the run over the
\* listener references reached one of them (found_invalid_weak_ref), which it
\* does whenever no listener answered a stop, and otherwise all of them are
\* still in the sequence.
C10_PurgedIfReached ==
    (kind = "sync" /\ event_identifier \in DOMAIN events) =>
        /\ DroppedBefore \cap Called = {}
        /\ pc = "returned" =>
              LET stale == DroppedBefore \cap
                              Range(entry.events[event_identifier].traits)
                  left == Range(events[event_identifier].traits)
              IN /\ found_invalid_weak_ref => stale \cap left = {}
                 /\ ~found_invalid_weak_ref => stale \subseteq left
                 /\ (stale # {} /\ ~ListenerStopped) => found_invalid_weak_ref

\* a dispatch that reached a stale reference, was then stopped by a listener
\* and purged the stale reference at its end
C10_Witness ==
    /\ kind = "sync"
    /\ pc = "returned"
    /\ found_invalid_weak_ref
    /\ ListenerStopped
    /\ DroppedBefore \cap Range(entry.events[event_identifier].traits) # {}
    /\ events[event_identifier].traits # <<>>

\* ------------------------------------------------------------------------
\* Claims about PriorityEventDispatcher (SpecPriority)
\* ------------------------------------------------------------------------

\* the subscribers invoked in tier p
CalledAt(p) == {calls[k].sub : k \in {j \in 1 .. Len(calls) : calls[j].prio = p}}

\* some subscriber answered StopPropagation or StopListeningAndPropagation
SomeStop == \E k \in 1 .. Len(calls) : calls[k].req \in Stops

\* C11: PriorityEventDispatcher::dispatch_event invokes the subscribers tier
\* by tier in ascending key order: a call of a lower key never follows a call
\* of a higher key, every call is of a subscriber of its tier, and when the
\* dispatch returns without a stop, every closure of every tier and every
\* listener still alive was invoked in its tier, also when a lower tier was
\* empty.
C11_AscendingTiers ==
    (kind = "priority" /\ event_identifier \in DOMAIN events) =>
        LET tiers == entry.events[event_identifier]
        IN /\ \A i, j \in 1 .. Len(calls) :
                 i < j => calls[i].prio <= calls[j].prio
           /\ \A k \in 1 .. Len(calls) :
                 /\ calls[k].prio \in DOMAIN tiers
                 /\ calls[k].sub \in Range(tiers[calls[k].prio].traits)
                                        \cup Range(tiers[calls[k].prio].fns)
           /\ (pc = "returned" /\ ~SomeStop) =>
                 \A p \in DOMAIN tiers :
                    /\ Range(tiers[p].fns) \subseteq CalledAt(p)
                    /\ Range(tiers[p].traits) \cap alive \subseteq CalledAt(p)

\* a dispatch that invoked a subscriber of tier 1 and then one of tier 2
C11_Witness ==
    /\ kind = "priority"
    /\ pc = "returned"
    /\ CalledAt(1) # {}
    /\ CalledAt(2) # {}

\* a dispatch that found tier 1 empty and invoked a subscriber of tier 2
C11_EmptyTierSkipped ==
    /\ kind = "priority"
    /\ pc = "returned"
    /\ event_identifier \in DOMAIN entry.events
    /\ 1 \in DOMAIN entry.events[event_identifier]
    /\ entry.events[event_identifier][1] = [traits |-> <<>>, fns |-> <<>>]
    /\ CalledAt(2) # {}

\* C12: in PriorityEventDispatcher::dispatch_event a run that returns Stopped
\* ends the dispatch: once a subscriber has answered StopPropagation or
\* StopListeningAndPropagation the dispatch goes to its return with no
\* further call, so no closure of the same tier after a listener's stop and
\* no subscriber of a higher tier is invoked.
C12_GlobalVeto ==
    kind = "priority" =>
        /\ \A i, j \in 1 .. Len(calls) : i < j => calls[i].req \notin Stops
        /\ SomeStop => pc = "returned"
        /\ \A k \in 1 .. Len(calls) :
              calls[k].req \in Stops =>
                  \A n \in 1 .. Len(calls) : calls[n].prio <= calls[k].prio

\* a listener of tier 1 answered a stop and the closure of tier 2 was not
\* invoked
C12_Witness ==
    /\ kind = "priority"
    /\ pc = "returned"
    /\ Len(calls) = 1
    /\ calls[1].sub \in Listeners
    /\ calls[1].req \in Stops
    /\ calls[1].prio = 1
    /\ 2 \in DOMAIN entry.events[event_identifier]
    /\ entry.events[event_identifier][2].fns # <<>>

\* a listener answered a stop and the closure of the same tier was not
\* invoked
C12_SameTierVeto ==
    /\ kind = "priority"
    /\ pc = "returned"
    /\ Len(calls) = 1
    /\ calls[1].sub \in Listeners
    /\ calls[1].req \in Stops
    /\ entry.events[event_identifier][calls[1].prio].fns # <<>>

\* ------------------------------------------------------------------------
\* Claims about ParallelEventDispatcher (SpecParallel)
\* ------------------------------------------------------------------------

\* how often x occurs in the sequence s
Count(s, x) == Cardinality({k \in DOMAIN s : s[k] = x})

\* how often x answered StopListening in this dispatch
StopListeningCount(x) ==
    Cardinality({k \in 1 .. Len(calls) :
                    calls[k].sub = x /\ calls[k].req = StopListening})

\* the subscribers that answered StopListening in this dispatch
StopListeners ==
    {calls[k].sub : k \in {j \in 1 .. Len(calls) : calls[j].req = StopListening}}

\* of the entries of x the collection had at the call, those that answered
\* StopListening are gone
Removed(x) ==
    LET before == entry.events[event_identifier]
        after == events[event_identifier]
    IN Count(after.traits, x) + Count(after.fns, x)
          <= Count(before.traits, x) + Count(before.fns, x)
                - StopListeningCount(x)

\* the parallel dispatch is over: it returned, or it panicked
DispatchOver == pc \in {"returned", "panicked"}

\* C13: when a ParallelEventDispatcher::dispatch_event is over, every entry
\* that answered StopListening in it is gone from the identity's collection,
\* whatever the positions of the answering entries, the order in which the
\* positions were recorded and the pool.
C13_StopListenersAbsent ==
    (kind = "parallel" /\ DispatchOver /\ event_identifier \in DOMAIN events)
        => \A x \in StopListeners : Removed(x)

\* the same for the dispatches that return
C13_StopListenersAbsentOnReturn ==
    (kind = "parallel" /\ pc = "returned" /\ event_identifier \in DOMAIN events)
        => \A x \in StopListeners : Removed(x)

\* the calls made on the subscribers of the set S
CallsOf(S) == {k \in 1 .. Len(calls) : calls[k].sub \in S}

\* every entry of the sequence, as it was at the call, was invoked and
\* answered StopListening
AllAnsweredStopListening(S, before) ==
    /\ before # <<>>
    /\ Cardinality(CallsOf(S)) = Len(before)
    /\ \A k \in CallsOf(S) : calls[k].req = StopListening

\* C14: when every listener (or every closure) registered for the identity
\* answers StopListening in one ParallelEventDispatcher::dispatch_event, the
\* dispatch returns normally and the sequence is empty afterwards, for every
\* number of entries and every order of the recorded positions.
C14_AllStopListeningEmpties ==
    (kind = "parallel" /\ DispatchOver /\ event_identifier \in DOMAIN events)
        => LET before == entry.events[event_identifier]
               after == events[event_identifier]
               allFns == AllAnsweredStopListening(Closures, before.fns)
               allTraits == AllAnsweredStopListening(Listeners, before.traits)
           IN /\ allFns => after.fns = <<>>
              /\ allTraits => after.traits = <<>>
              /\ ((allFns \/ before.fns = <<>>)
                    /\ (allTraits \/ before.traits = <<>>))
                    => pc = "returned"

\* one entry answering StopListening: the dispatch returns normally with the
\* sequence empty
C14_SingleEntryEmpties ==
    (kind = "parallel" /\ DispatchOver /\ event_identifier \in DOMAIN events)
        => LET before == entry.events[event_identifier]
               after == events[event_identifier]
           IN /\ (Len(before.fns) = 1
                    /\ AllAnsweredStopListening(Closures, before.fns))
                    => after.fns = <<>>
              /\ (Len(before.traits) = 1
                    /\ AllAnsweredStopListening(Listeners, before.traits))
                    => after.traits = <<>>
              /\ (Len(before.fns) <= 1 /\ Len(before.traits) <= 1)
                    => pc = "returned"

\* C15: a step that leaves the result Err (a failed num_threads) changes
\* neither the pool nor the map; a num_threads step that returns Ok leaves
\* one pool configured and the map as it was; the pool changes in no other
\* step; and at most one pool is configured at any time.
C15_SwapOrReject ==
    /\ [][kind = "parallel" =>
            /\ ret' = "Err" => (thread_pool' = thread_pool /\ events' = events)
            /\ (ret' = "Ok" /\ alive' = alive) =>
                  /\ \E num \in 1 .. MaxThreads : thread_pool' = {num}
                  /\ events' = events
            /\ thread_pool' # thread_pool => ret' = "Ok"]_vars
    /\ [](Cardinality(thread_pool) <= 1)

\* a build failed on a registry that had a pool and a collection: the pool is
\* still configured
C15_Witness ==
    /\ kind = "parallel"
    /\ ret = "Err"
    /\ thread_pool # NoPool
    /\ DOMAIN events # {}

\* ------------------------------------------------------------------------
\* Claims about registration and ownership
\* ------------------------------------------------------------------------

\* how many entries the identity's collection holds (none without one)
Entries(evs, id) ==
    IF id \in DOMAIN evs THEN Len(evs[id].traits) + Len(evs[id].fns) ELSE 0

\* how often x was invoked in this dispatch
CallCount(x) == Cardinality({k \in 1 .. Len(calls) : calls[k].sub = x})

\* how often x answered StopListening or StopListeningAndPropagation
RemovalCount(x) ==
    Cardinality({k \in 1 .. Len(calls) :
        /\ calls[k].sub = x
        /\ calls[k].req \in {StopListening, StopListeningAndPropagation}})

\* C16: in EventDispatcher every registration appends one entry, also of a
\* listener the identity already has; when dispatch_event returns, a listener
\* still alive has lost as many of its entries as it answered removals, and,
\* when no subscriber answered a stop, was invoked once for each entry it had.
C16_NoDuplicateDetection ==
    /\ [][kind = "sync" =>
            \A id \in Events :
                registered'[id] = registered[id] + 1 =>
                    Entries(events', id) = Entries(events, id) + 1]_vars
    /\ []((kind = "sync" /\ pc = "returned"
              /\ event_identifier \in DOMAIN events) =>
            \A l \in alive :
                LET before == entry.events[event_identifier].traits
                    after == events[event_identifier].traits
                IN /\ Count(after, l) = Count(before, l) - RemovalCount(l)
                   /\ ~SomeStop => CallCount(l) = Count(before, l))

\* a listener registered twice was invoked twice, answered StopListening
\* once, and one of its two entries is left
C16_Witness ==
    /\ kind = "sync"
    /\ pc = "returned"
    /\ event_identifier \in DOMAIN events
    /\ \E l \in Listeners :
          /\ Count(entry.events[event_identifier].traits, l) = 2
          /\ CallCount(l) = 2
          /\ RemovalCount(l) = 1
          /\ ~SomeStop
          /\ Count(events[event_identifier].traits, l) = 1

\* C17: in each registry an identity has a collection exactly when a
\* registration was made for it, and no step takes a collection out of the
\* map, also when its last entry is removed or has expired.
C17_LazyAndPermanent ==
    /\ [](kind \in {"sync", "priority", "parallel"} =>
            \A id \in Events : id \in DOMAIN events <=> registered[id] > 0)
    /\ [][DOMAIN events \subseteq DOMAIN events']_vars

\* a dispatch has returned that left the identity's collection without any
\* entry: the identity still has it
C17_Witness ==
    /\ kind = "sync"
    /\ pc = "returned"
    /\ event_identifier \in DOMAIN events
    /\ registered[event_identifier] >= 2
    /\ Len(calls) >= 1
    /\ found_invalid_weak_ref
    /\ events[event_identifier] = [traits |-> <<>>, fns |-> <<>>]

\* the listeners the dispatcher holds a strong owner of
StrongHeld == Holders \ {NoListener}

\* C18 as stated: at every point of every execution a listener the
\* dispatcher holds strongly has a strong owner outside the dispatcher.
C18_NeverSoleOwner ==
    kind \in {"sync", "priority", "parallel"} => StrongHeld \subseteq alive

\* C18 amended: the dispatcher holds a strong owner of a listener only while
\* dispatch_event is inside the callback for that listener (from the upgrade
\* to the end of on_event); it takes one only of a listener that has a strong
\* owner at that moment; and a registration leaves the strong owners as they
\* were, the dispatcher holding none.
C18_StrongOnlyInCallback ==
    /\ [](kind \in {"sync", "priority", "parallel"} =>
            /\ listener_arc # NoListener => pc = "on_event"
            /\ StrongHeld # {} => pc \in {"on_event", "join"})
    /\ [][\A l \in Listeners :
            (l \in StrongHeld' /\ l \notin StrongHeld) => l \in alive]_vars
    /\ [][registered' # registered =>
            /\ alive' = alive
            /\ StrongHeld = {}
            /\ StrongHeld' = {}]_vars

\* the application dropped its last owner of a listener while on_event was
\* running on it: the Arc of the dispatch is the only strong owner
C18_Witness ==
    /\ kind \in {"sync", "priority", "parallel"}
    /\ pc \in {"on_event", "join"}
    /\ StrongHeld \ alive # {}

\* at the return every closure the collection had at the call, and every
\* listener reference whose listener is still alive, was invoked exactly once
EachInvokedOnce ==
    LET before == entry.events[event_identifier]
    IN /\ \A f \in Range(before.fns) : CallCount(f) = Count(before.fns, f)
       /\ \A l \in Range(before.traits) \cap alive :
             CallCount(l) = Count(before.traits, l)
       /\ Len(calls) <= Len(before.fns) + Len(before.traits)

\* C19: a ParallelEventDispatcher::dispatch_event whose callbacks return
\* never gets stuck and never ends otherwise than by returning, and at the
\* return every closure and every live listener reference of the collection
\* was invoked exactly once.
C19_RunsToCompletion ==
    kind = "parallel" =>
        /\ pc # "panicked"
        /\ pc \in {"join", "remove_traits"} => ENABLED ParallelSteps
        /\ (pc = "returned" /\ event_identifier \in DOMAIN events)
              => EachInvokedOnce

\* the same without the demand that the dispatch does not panic, the
\* invocations counted also at a panic
C19_EachInvokedOnceAndNoDeadlock ==
    kind = "parallel" =>
        /\ pc \in {"join", "remove_traits"} => ENABLED ParallelSteps
        /\ (DispatchOver /\ event_identifier \in DOMAIN events)
              => EachInvokedOnce

\* the outcome of a parallel dispatch in which no listener was dropped, as
\* the collection at the call, the answers and the order of the recorded
\* positions give it: who was invoked, whether the removals panic, and, at
\* the return, how many entries of each subscriber are left
ExpectedOutcome ==
    LET before == entry.events[event_identifier]
        after == events[event_identifier]
        live == Range(before.traits) \cap entry.alive
    IN /\ Called = Range(before.fns) \cup live
       /\ pc = "panicked" <=>
             \/ ~remove_each(before.fns, fns_to_remove).ok
             \/ ~remove_each(before.traits, traits_to_remove).ok
       /\ pc = "returned" =>
             /\ \A x \in Range(before.fns) \cup live :
                   Count(after.traits, x) + Count(after.fns, x) =
                      Count(before.traits, x) + Count(before.fns, x)
                         - StopListeningCount(x)
             /\ Range(after.traits) \subseteq live
             /\ Range(after.fns) \subseteq Range(before.fns)

C20_WitnessNoPool ==
    /\ kind = "parallel"
    /\ pc = "returned"
    /\ thread_pool = NoPool
    /\ alive = entry.alive
    /\ Called \cap Closures # {}
    /\ Called \cap Listeners # {}
    /\ StopListeners # {}

\* ------------------------------------------------------------------------
\* Claims about the cleanup of stale references
\* ------------------------------------------------------------------------

\* the listeners dropped before the call that tier p still holds a reference to
StaleIn(p) == DroppedBefore \cap Range(events[event_identifier][p].traits)

\* C21: when PriorityEventDispatcher::dispatch_event returns, every tier in
\* which the run met the reference of a dropped listener holds no reference
\* to a listener dropped before the call: the tiers run to their end, and the
\* tier the dispatch ended in when its flag found_invalid_weak_ref is set,
\* also when a run of that tier returned Stopped.
C21_SweptPerTier ==
    (kind = "priority" /\ pc = "returned" /\ event_identifier \in DOMAIN events)
        => \A p \in DOMAIN events[event_identifier] :
              /\ p < priority => StaleIn(p) = {}
              /\ (p = priority /\ found_invalid_weak_ref) => StaleIn(p) = {}

\* the same for the dispatches no subscriber answered a stop in
C21_SweptUnlessStopped ==
    (kind = "priority" /\ pc = "returned" /\ event_identifier \in DOMAIN events
        /\ ~SomeStop)
        => \A p \in DOMAIN events[event_identifier] : StaleIn(p) = {}

\* the listeners the identity's collection (in the priority registry: any of
\* its tiers) holds a reference to
Refs(id) ==
    IF id \notin DOMAIN events THEN {}
    ELSE IF kind = "priority"
         THEN UNION {Range(events[id][p].traits) : p \in DOMAIN events[id]}
         ELSE Range(events[id].traits)

\* the identity holds a reference to the dropped listener l
Stale(id, l) == l \notin alive /\ l \in Refs(id)

\* a dispatch_event of a synchronous registry for the identity returns
Dispatched(id) ==
    /\ kind \in {"sync", "priority"}
    /\ event_identifier = id
    /\ Return

\* C22 as stated: in a synchronous registry, when dispatch_event keeps being
\* called for an identity, the reference to a dropped listener is eventually
\* gone from the identity's collection, whatever the other subscribers answer.
C22_EventuallyPurged ==
    \A id \in Events, l \in Listeners :
        []<><<Dispatched(id)>>_vars => (Stale(id, l) ~> ~Stale(id, l))

\* the same when dispatches of the identity in which no subscriber answers
\* StopPropagation or StopListeningAndPropagation keep returning
C22_PurgedByUnstoppedDispatch ==
    \A id \in Events, l \in Listeners :
        []<><<Dispatched(id) /\ ~SomeStop>>_vars
            => (Stale(id, l) ~> ~Stale(id, l))

\* ------------------------------------------------------------------------
\* Claims about the workers of ParallelEventDispatcher (SpecParallel)
\* ------------------------------------------------------------------------

\* both tasks of the join are through all their elements
TasksDone ==
    /\ \A k \in DOMAIN traits_task : traits_task[k] = "done"
    /\ \A k \in DOMAIN fns_task : fns_task[k] = "done"

\* the list is as it was, or has one position of the sequence more
Recorded(list, seq) ==
    \/ list' = list
    \/ \E k \in 1 .. Len(seq) : list' = Append(list, k - 1)

\* C23: in ParallelEventDispatcher::dispatch_event a step of a worker leaves
\* both sequences as they are and at most records a position of its own
\* sequence in its own list; the sequences change only once both tasks are
\* done, first the closures by the positions in fns_to_remove alone, then the
\* listener references by the positions in traits_to_remove alone, and the
\* lists no longer change then.
C23_RemovalsAfterJoin ==
    [][(kind = "parallel" /\ pc \in {"join", "remove_traits"}) =>
         LET c == events[event_identifier]
         IN /\ ~TasksDone =>
                  /\ events' = events
                  /\ pc' = pc
                  /\ Recorded(traits_to_remove, c.traits)
                  /\ Recorded(fns_to_remove, c.fns)
                  /\ fns_task' = fns_task => fns_to_remove' = fns_to_remove
                  /\ traits_task' = traits_task
                        => traits_to_remove' = traits_to_remove
            /\ (TasksDone /\ pc = "join" /\ pc' # pc) =>
                  /\ events'[event_identifier].traits = c.traits
                  /\ events'[event_identifier].fns =
                        remove_each(c.fns, fns_to_remove).vec
                  /\ UNCHANGED <<traits_to_remove, fns_to_remove>>
            /\ (pc = "remove_traits" /\ pc' # pc) =>
                  /\ TasksDone
                  /\ events'[event_identifier].fns = c.fns
                  /\ events'[event_identifier].traits =
                        remove_each(c.traits, traits_to_remove).vec
                  /\ UNCHANGED <<traits_to_remove, fns_to_remove>>]_vars

\* a dispatch has returned that removed a closure and kept the listener
\* reference at the same position
C23_Witness ==
    /\ kind = "parallel"
    /\ pc = "returned"
    /\ event_identifier \in DOMAIN events
    /\ fns_to_remove # <<>>
    /\ traits_to_remove = <<>>
    /\ events[event_identifier].traits # <<>>
    /\ Len(events[event_identifier].fns)
          < Len(entry.events[event_identifier].fns)

\* the tasks of the parallel dispatch that hold the lock of listener l
LockHolders(l) ==
    {j \in DOMAIN traits_task :
        /\ traits_task[j] \in {"locked", "push"}
        /\ events[event_identifier].traits[j] = l}

\* the tasks whose on_event call on listener l is running
InOnEvent(l) ==
    {j \in DOMAIN traits_task :
        /\ traits_task[j] = "locked"
        /\ events[event_identifier].traits[j] = l}

\* C24 as stated: at most one on_event call runs on a listener at any time,
\* and a listener's lock is held only while an on_event call on it is
\* running: it is free again before the worker records a position.
C24_LockOnlyDuringOnEvent ==
    kind = "parallel" =>
        \A l \in Listeners :
            /\ Cardinality(InOnEvent(l)) <= 1
            /\ LockHolders(l) = InOnEvent(l)

\* C24 amended: at most one task holds a listener's lock, and so at most one
\* on_event call runs on a listener, at any time; in the synchronous
\* registries the listener is locked exactly while on_event runs; in the
\* parallel registry the lock is taken for one on_event call and, after an
\* answer of StopListening, is still held while the worker records the
\* position in traits_to_remove, and released with that step.
C24_OneOnEventPerListener ==
    /\ [](kind \in {"sync", "priority"} =>
            (listener_arc # NoListener <=> pc = "on_event"))
    /\ [](kind = "parallel" =>
            \A l \in Listeners :
                /\ Cardinality(LockHolders(l)) <= 1
                /\ Cardinality(InOnEvent(l)) <= 1)
    /\ [][kind = "parallel" =>
            \A k \in DOMAIN traits_task :
                /\ (traits_task[k] = "locked" /\ traits_task'[k] # "locked") =>
                      /\ Len(calls') = Len(calls) + 1
                      /\ traits_task'[k] =
                            IF Last(calls').req = StopListening
                            THEN "push" ELSE "done"
                /\ (traits_task[k] = "push" /\ traits_task'[k] # "push") =>
                      /\ traits_task'[k] = "done"
                      /\ traits_to_remove' = Append(traits_to_remove, k - 1)]_vars

\* on_event has answered StopListening and the worker, about to record the
\* position, still holds the listener's lock, while a second task of the same
\* listener waits for it
C24_Witness ==
    /\ kind = "parallel"
    /\ pc = "join"
    /\ \E j, k \in DOMAIN traits_task :
          /\ j # k
          /\ events[event_identifier].traits[j] = events[event_identifier].traits[k]
          /\ traits_task[j] = "push"
          /\ traits_task[k] = "arc"

\* ------------------------------------------------------------------------
\* Claims about order, termination and frame
\* ------------------------------------------------------------------------

Removals == {StopListening, StopListeningAndPropagation}

\* the calls before call k made on subscribers of the same sort (listeners,
\* or closures)
EarlierOfSort(k) ==
    {j \in 1 .. (k - 1) :
        calls[j].sub \in Listeners <=> calls[k].sub \in Listeners}

\* the sequence of an identity's collection: <<>> when it has none
TraitsOf(evs, id) == IF id \in DOMAIN evs THEN evs[id].traits ELSE <<>>

FnsOf(evs, id) == IF id \in DOMAIN evs THEN evs[id].fns ELSE <<>>

\* C25: in EventDispatcher a registration puts the new entry behind the
\* entries of its sort registered before; and in a dispatch of an identity
\* nothing was removed from, as long as no entry of the sort has answered a
\* removal, the listeners are invoked in the order of their references, the
\* references passed over being those of dropped listeners, and after them
\* the closures in the order of the closure sequence, none left out.
C25_RegistrationOrder ==
    /\ [][kind = "sync" =>
            \A id \in Events :
                registered'[id] = registered[id] + 1 =>
                    \/ /\ \E l \in Listeners :
                             TraitsOf(events', id) =
                                Append(TraitsOf(events, id), l)
                       /\ FnsOf(events', id) = FnsOf(events, id)
                    \/ /\ \E f \in Closures :
                             FnsOf(events', id) = Append(FnsOf(events, id), f)
                       /\ TraitsOf(events', id) = TraitsOf(events, id)]_vars
    /\ []((kind = "sync" /\ event_identifier \in DOMAIN events
             /\ Entries(entry.events, event_identifier)
                   = registered[event_identifier]) =>
            LET before == entry.events[event_identifier]
            IN \A k \in 1 .. Len(calls) :
                  (\A j \in EarlierOfSort(k) : calls[j].req \notin Removals) =>
                     /\ \A j \in EarlierOfSort(k) : calls[j].at < calls[k].at
                     /\ \A j \in 1 .. (k - 1) :
                           calls[j].sub \in Closures
                              => calls[k].sub \in Closures
                     /\ IF calls[k].sub \in Listeners
                        THEN /\ calls[k].sub = before.traits[calls[k].at + 1]
                             /\ \A i \in 0 .. (calls[k].at - 1) :
                                   (\A j \in EarlierOfSort(k) : calls[j].at # i)
                                      => before.traits[i + 1] \notin alive
                        ELSE /\ calls[k].sub = before.fns[calls[k].at + 1]
                             /\ calls[k].at = Cardinality(EarlierOfSort(k)))

\* two listeners and a closure of an identity nothing was removed from were
\* invoked: the listeners in the order of their references, then the closure
C25_Witness ==
    /\ kind = "sync"
    /\ pc = "returned"
    /\ event_identifier \in DOMAIN events
    /\ Entries(entry.events, event_identifier) = registered[event_identifier]
    /\ Len(calls) = 3
    /\ Len(entry.events[event_identifier].traits) = 2
    /\ calls[1].sub = entry.events[event_identifier].traits[1]
    /\ calls[2].sub = entry.events[event_identifier].traits[2]
    /\ calls[1].sub # calls[2].sub
    /\ calls[3].sub \in Closures

\* C26: a run of execute_sync_dispatcher_requests never calls the callback
\* more often than the input has elements, and on no element twice; every
\* step of a run that goes on brings the index closer to the end of the
\* vector, so the run ends; it does not panic; and a run that returned
\* Finished has called every element of the input.
C26_BoundedRun ==
    /\ [](kind = "exec" =>
            /\ Len(calls) <= Len(input)
            /\ \A i, j \in 1 .. Len(calls) : i # j => calls[i] # calls[j]
            /\ Range(calls) \subseteq Range(input)
            /\ ret # Panicked
            /\ ret = Running => ENABLED NextExec
            /\ ret = Finished =>
                  /\ Range(calls) = Range(input)
                  /\ Len(calls) = Len(input))
    /\ [][(kind = "exec" /\ ret' = Running) =>
            /\ Len(vec') - index' = Len(vec) - index - 1
            /\ Len(calls') = Len(calls) + 1]_vars

\* a run over five elements or more returned Finished after it had removed
\* elements, the elements moved by the removals called once like the others
C26_Witness ==
    /\ kind = "exec"
    /\ ret = Finished
    /\ Len(input) >= 5
    /\ Len(vec) + 2 <= Len(input)
    /\ vec # <<>>
    /\ Len(calls) = Len(input)

NoCollection == [traits |-> <<>>, fns |-> <<>>]

\* the collection of identity id (in the priority registry: its tier p) in
\* the map evs, the empty one when the map has none
CollAt(evs, id, p) ==
    IF id \notin DOMAIN evs THEN NoCollection
    ELSE IF kind = "priority"
         THEN IF p \in DOMAIN evs[id] THEN evs[id][p] ELSE NoCollection
         ELSE evs[id]

IsAlive(l) == l \in alive

\* this step is the return of a callback of x that answered StopListening or
\* StopListeningAndPropagation
AnswersRemoval(x) ==
    /\ Len(calls') = Len(calls) + 1
    /\ Last(calls').sub = x
    /\ Last(calls').req \in Removals

\* C27: in EventDispatcher and PriorityEventDispatcher an entry of a closure
\* leaves its sequence only in the step in which that closure answers
\* StopListening or StopListeningAndPropagation, and then one entry only; an
\* entry of a listener only in such a step of that listener, or when the
\* listener has been dropped; and the sweep leaves the closures as they are
\* and the references to live listeners in their order.
C27_NoInnocentRemoved ==
    [][(kind \in {"sync", "priority"}) =>
         \A id \in Events, p \in Priorities :
            LET c == CollAt(events, id, p)
                d == CollAt(events', id, p)
            IN /\ \A f \in Closures :
                     Count(d.fns, f) < Count(c.fns, f) =>
                        /\ AnswersRemoval(f)
                        /\ Count(d.fns, f) = Count(c.fns, f) - 1
               /\ \A l \in Listeners :
                     Count(d.traits, l) < Count(c.traits, l) =>
                        \/ /\ AnswersRemoval(l)
                           /\ Count(d.traits, l) = Count(c.traits, l) - 1
                        \/ l \notin alive
               /\ pc = "sweep" =>
                     /\ d.fns = c.fns
                     /\ SelectSeq(d.traits, IsAlive)
                           = SelectSeq(c.traits, IsAlive)]_vars

\* a dispatch has returned in which a subscriber answered a removal and the
\* sweep took a dead reference out, a live listener staying registered
C27_Witness ==
    /\ kind \in {"sync", "priority"}
    /\ pc = "returned"
    /\ found_invalid_weak_ref
    /\ \E k \in 1 .. Len(calls) : calls[k].req \in Removals
    /\ DroppedBefore \cap Refs(event_identifier) = {}
    /\ Refs(event_identifier) \cap alive # {}
    /\ \E k \in 1 .. Len(calls) :
          calls[k].sub \in Refs(event_identifier) /\ calls[k].req = None

\* the subscribers of the dispatched identity that may not lose an entry
\* they did not ask to lose: the closures, and the listeners still alive
Protected ==
    Range(entry.events[event_identifier].fns)
       \cup (Range(entry.events[event_identifier].traits) \cap alive)

C29_PositionsValid ==
    (kind = "parallel" /\ event_identifier \in DOMAIN events) =>
        /\ (pc = "join" /\ TasksDone) =>
              remove_each(events[event_identifier].fns, fns_to_remove).ok
        /\ pc = "remove_traits" =>
              remove_each(events[event_identifier].traits, traits_to_remove).ok

\* the same for the dispatches with one recorded position at most in each list
C29_SinglePositionValid ==
    (kind = "parallel" /\ event_identifier \in DOMAIN events
        /\ Len(fns_to_remove) <= 1 /\ Len(traits_to_remove) <= 1) =>
        /\ (pc = "join" /\ TasksDone) =>
              remove_each(events[event_identifier].fns, fns_to_remove).ok
        /\ pc = "remove_traits" =>
              remove_each(events[event_identifier].traits, traits_to_remove).ok

\* the subscribers the map evs has registered under the identity
SubscribersOf(evs, id) ==
    IF id \notin DOMAIN evs THEN {}
    ELSE IF kind = "priority"
         THEN UNION {Range(evs[id][p].traits) \cup Range(evs[id][p].fns) :
                        p \in DOMAIN evs[id]}
         ELSE Range(evs[id].traits) \cup Range(evs[id].fns)

\* the identity has in both maps the same collection, or in both none
SameCollection(evs1, evs2, id) ==
    /\ id \in DOMAIN evs1 <=> id \in DOMAIN evs2
    /\ id \in DOMAIN evs1 => evs1[id] = evs2[id]

\* the collection d is the collection c with one entry more, at the end of
\* the listener references or at the end of the closures
OneAppended(c, d) ==
    \/ /\ \E l \in Listeners : d.traits = Append(c.traits, l)
       /\ d.fns = c.fns
    \/ /\ \E f \in Closures : d.fns = Append(c.fns, f)
       /\ d.traits = c.traits

\* C30: in each registry every subscriber a dispatch_event invokes is
\* registered under the dispatched identity; from the call to the return the
\* collections of all other identities stay as they are; and a registration
\* invokes nobody, leaves the other identities' collections alone and changes
\* the collection of its identity (in the priority registry: one tier of it)
\* by one entry appended at the end, and nothing else.
C30_IdentitiesIsolated ==
    /\ [](kind \in {"sync", "priority", "parallel"} =>
            \A k \in 1 .. Len(calls) :
                calls[k].sub \in SubscribersOf(entry.events, event_identifier))
    /\ [][\A id \in Events :
            /\ (pc # "idle" /\ id # event_identifier)
                  => SameCollection(events, events', id)
            /\ registered'[id] = registered[id] + 1 =>
                  /\ pc = "idle" /\ pc' = "idle"
                  /\ calls' = calls
                  /\ \A other \in Events \ {id} :
                        SameCollection(events, events', other)
                  /\ \E p \in Priorities :
                        /\ OneAppended(CollAt(events, id, p),
                                       CollAt(events', id, p))
                        /\ kind = "priority" =>
                              \A q \in Priorities \ {p} :
                                 CollAt(events', id, q) = CollAt(events, id, q)
                              ]_vars

\* both identities have subscribers, and a dispatch of one of them has
\* returned that invoked a subscriber and removed an entry
C30_Witness ==
    /\ kind \in {"sync", "priority", "parallel"}
    /\ pc = "returned"
    /\ calls # <<>>
    /\ \A id \in Events : SubscribersOf(events, id) # {}
    /\ events[event_identifier] # entry.events[event_identifier]

=============================================================================
